---- MODULE Spec2Model ----
(***************************************************************************)
(* Scene Lifecycle and Transition Manager of the three.js multi-scene      *)
(* application: SceneManager (src/scene/sceneManager.js), the two scene    *)
(* units Scene1 (src/unnamed/part_000) and Scene2 (src/unnamed/part_001),  *)
(* and the shared camera and lighting services (src/unnamed/part_005,      *)
(* src/unnamed/part_004) as far as the manager drives them.                *)
(*                                                                         *)
(* Every manager operation is one action: the whole async method, run to   *)
(* completion (returned or thrown).  The registry `scenes` maps a scene    *)
(* name to the unit object registered under it; every unit is registered   *)
(* under one name only, so the registry is also the heap of the units.     *)
(***************************************************************************)
EXTENDS Integers, Sequences, FiniteSets, TLC

\* ---------------------------------------------------------------- bounds
\* Loaded models resident in the registered units, all units together.
MaxModels == 2
\* Animation steps applied to the decor of the registered units, all together.
MaxTicks == 1

\* ------------------------------------------------------------ vocabulary
NULL == "null"
\* Scene names the callers use: the two built-in ones and one dynamic name.
SceneNames == {"scene1", "scene2", "scene3"}
\* Model type tags a caller may pass; "pyramid" stands for any unknown tag.
ModelTypeInputs == {"cube", "sphere", "pyramid"}
\* Unit classes of the repository.
UnitClasses == {"Scene1", "Scene2"}
\* Whether a unit's init throws.  Scene1 throws while setting up its
\* background (the canvas context), Scene2 while building its environment;
\* in both the scene graph handle exists already and no object was pushed.
FailPoints == {"none", "throws"}

VARIABLES
    scenes,            \* SceneManager.scenes: name -> the unit object under that key
    currentSceneName,  \* SceneManager.currentSceneName
    isInitialized,     \* SceneManager.isInitialized
    cameraManager,     \* SceneManager.cameraManager is set (not null)
    lightsManager,     \* SceneManager.lightsManager is set (not null)
    modelLoader,       \* SceneManager.modelLoader is set (not null)
    camera,            \* the shared CameraManager's camera: position and look-at target
    lights,            \* the shared LightsManager's light values
    suspended          \* the async manager calls waiting at their await, oldest first

vars == <<scenes, currentSceneName, isInitialized, cameraManager, lightsManager,
          modelLoader, camera, lights, suspended>>

\* ------------------------------------------------------ shared services
\* CameraManager defaults: position (0,5,10), target (0,0,0).
CameraDefault == [position |-> <<0, 5, 10>>, target |-> <<0, 0, 0>>]

\* LightsManager.init: the values the lights are created with
\* (intensities in tenths, colours as numbers).
LightsInitial ==
    [ambient     |-> [intensity |-> 3,  color |-> 4210752],
     directional |-> [intensity |-> 10, color |-> 16777215],
     hemisphere  |-> [intensity |-> 2]]

\* LightsManager.getPreset('daylight')
DaylightPreset ==
    [ambient     |-> [intensity |-> 3,  color |-> 4210752],
     directional |-> [intensity |-> 10, color |-> 16777215],
     hemisphere  |-> [intensity |-> 2]]

\* LightsManager.getPreset('night')
NightPreset ==
    [ambient     |-> [intensity |-> 1, color |-> 2105408],
     directional |-> [intensity |-> 2, color |-> 4474111],
     hemisphere  |-> [intensity |-> 1]]

\* The preset names LightsManager.getPreset maps to light values here.
presetKnown(presetName) == presetName \in {"daylight", "night"}

\* LightsManager.getPreset for a known name.
getPreset(presetName) ==
    IF presetName = "daylight" THEN DaylightPreset ELSE NightPreset

\* LightsManager.applyPreset: an unknown name only warns; otherwise every
\* light the preset names takes the preset's intensity and colour.
applyPreset(l, presetName) ==
    IF ~presetKnown(presetName) THEN l
    ELSE LET preset == getPreset(presetName) IN
         [ambient     |-> [intensity |-> preset.ambient.intensity,
                           color     |-> preset.ambient.color],
          directional |-> [intensity |-> preset.directional.intensity,
                           color     |-> preset.directional.color],
          hemisphere  |-> [intensity |-> preset.hemisphere.intensity]]

\* ---------------------------------------------------------- scene units
\* The static decor each class pushes onto `objects` during init, in order.
Scene1Decor == <<"Ground", "Cube", "Sphere", "Cylinder", "Torus", "Cone">>
Scene2Decor == <<"Floor", "FrontWall", "BackWall", "LeftWall", "RightWall",
                 "CrystalFormation", "FloatingPlatforms", "SpiralStructure",
                 "GlowingOrbs", "Particles">>

\* The decor whose rotation update() advances by a fixed step on every call.
Scene1Rotating == {"Cube", "Torus", "Cylinder"}
Scene2Rotating == {"SpiralStructure", "FloatingPlatforms", "GlowingOrbs",
                   "CrystalFormation", "Particles"}

DecorOf(cls) == IF cls = "Scene1" THEN Scene1Decor ELSE Scene2Decor
RotatingOf(cls) == IF cls = "Scene1" THEN Scene1Rotating ELSE Scene2Rotating

\* One decor object: not flagged as a loaded model.  `rot` counts the
\* rotation steps update() has applied to it.
DecorObject(cls, i) ==
    [name |-> DecorOf(cls)[i], isLoadedModel |-> FALSE, modelType |-> NULL, rot |-> 0]

\* new Scene1() / new Scene2(): the constructor's state.
NewUnit(cls) ==
    [cls |-> cls, scene |-> FALSE, objects |-> <<>>, isInitialized |-> FALSE]

\* The value of this.scenes[name] for a key the registry does not hold.
NoUnit == [cls |-> NULL, scene |-> FALSE, objects |-> <<>>, isInitialized |-> FALSE]

isLoaded(obj) == obj.isLoadedModel

\* getModelCount(): the entries of objects flagged as loaded models.
getModelCount(u) == Len(SelectSeq(u.objects, isLoaded))

\* getScene(): whether the scene graph handle is non-null.
getScene(u) == u.scene

\* Scene1.init / Scene2.init with the point where it throws (if it does).
\* Returns the unit, the lights after it and whether it threw.
unitInit(u, l, hasLights, fail) ==
    LET withScene == [u EXCEPT !.scene = TRUE]
        l2 == IF hasLights /\ u.cls = "Scene2" THEN applyPreset(l, "night") ELSE l
        decor == [i \in 1..Len(DecorOf(u.cls)) |-> DecorObject(u.cls, i)]
    IN CASE fail = "throws" /\ u.cls = "Scene1" ->
              [unit |-> withScene, lights |-> l, threw |-> TRUE]
         [] fail = "throws" /\ u.cls = "Scene2" ->
              [unit |-> withScene, lights |-> l2, threw |-> TRUE]
         [] OTHER ->
              [unit   |-> [withScene EXCEPT !.objects = u.objects \o decor,
                                            !.isInitialized = TRUE],
               lights |-> l2,
               threw  |-> FALSE]

\* A loadModel that builds a cube for every tag it does not know.
unitLoadModelDefaultsToCube(u, modelType) ==
    IF ~u.scene THEN [unit |-> u, threw |-> TRUE]
    ELSE LET known == modelType \in {"cube", "sphere"}
             model == [name |-> IF modelType = "sphere" THEN "LoadedSphere" ELSE "LoadedCube",
                       isLoadedModel |-> TRUE,
                       modelType |-> IF known THEN modelType ELSE "cube",
                       rot |-> 0]
         IN [unit |-> [u EXCEPT !.objects = Append(u.objects, model)], threw |-> FALSE]

\* loadModel(modelLoader, modelType): unknown tags return with a warning;
\* scene.add on a null scene graph throws before the push.
unitLoadModel(u, modelType) ==
    IF modelType \notin {"cube", "sphere"} THEN [unit |-> u, threw |-> FALSE]
    ELSE IF ~u.scene THEN [unit |-> u, threw |-> TRUE]
    ELSE LET model == [name |-> IF modelType = "cube" THEN "LoadedCube" ELSE "LoadedSphere",
                       isLoadedModel |-> TRUE,
                       modelType |-> modelType,
                       rot |-> 0]
         IN [unit |-> [u EXCEPT !.objects = Append(u.objects, model)], threw |-> FALSE]

\* objects.findIndex(loaded model of that type): 0 when there is none.
findModelIndex(u, modelType) ==
    LET hits == {i \in 1..Len(u.objects) :
                    u.objects[i].isLoadedModel /\ u.objects[i].modelType = modelType}
    IN IF hits = {} THEN 0 ELSE CHOOSE i \in hits : \A j \in hits : i <= j

\* objects.splice(index, 1)
splice(s, index) ==
    [i \in 1..(Len(s) - 1) |-> IF i < index THEN s[i] ELSE s[i + 1]]

\* A removeModel that filters out every loaded model of the type.
unitRemoveModelAllOfType(u, modelType) ==
    LET Keep(obj) == ~(obj.isLoadedModel /\ obj.modelType = modelType)
    IN [u EXCEPT !.objects = SelectSeq(u.objects, Keep)]

\* A removeModel that removes the last loaded model of the type.
unitRemoveModelLast(u, modelType) ==
    LET hits == {i \in 1..Len(u.objects) :
                    u.objects[i].isLoadedModel /\ u.objects[i].modelType = modelType}
    IN IF hits = {} THEN u
       ELSE [u EXCEPT !.objects = splice(u.objects, CHOOSE i \in hits : \A j \in hits : j <= i)]

\* removeModel(modelType): removes the first loaded model of that type.
unitRemoveModel(u, modelType) ==
    LET modelIndex == findModelIndex(u, modelType)
    IN IF modelIndex = 0 THEN u
       ELSE [u EXCEPT !.objects = splice(u.objects, modelIndex)]

isDecor(obj) == ~obj.isLoadedModel

\* A clearModels whose filter is inverted.
unitClearModelsInverted(u) == [u EXCEPT !.objects = SelectSeq(u.objects, isLoaded)]

\* clearModels(): objects keeps the entries not flagged as loaded models.
unitClearModels(u) == [u EXCEPT !.objects = SelectSeq(u.objects, isDecor)]

\* update(deltaTime): nothing unless initialized; otherwise the rotating
\* decor advances by one step.
unitUpdate(u) ==
    IF ~u.isInitialized THEN u
    ELSE [u EXCEPT !.objects =
            [i \in 1..Len(u.objects) |->
                IF u.objects[i].name \in RotatingOf(u.cls)
                THEN [u.objects[i] EXCEPT !.rot = @ + 1]
                ELSE u.objects[i]]]

\* A dispose that nulls the handle and keeps the objects list.
unitDisposeKeepsObjects(u) ==
    IF u.scene THEN [u EXCEPT !.scene = FALSE, !.isInitialized = FALSE] ELSE u

\* dispose(): only when the scene graph exists.
unitDispose(u) ==
    IF u.scene
    THEN [u EXCEPT !.objects = <<>>, !.scene = FALSE, !.isInitialized = FALSE]
    ELSE u

\* The rotation steps applied so far to a unit's decor (0 when it has none).
unitTicks(u) ==
    LET rs == {u.objects[i].rot : i \in 1..Len(u.objects)}
    IN IF rs = {} THEN 0 ELSE CHOOSE r \in rs : \A q \in rs : q <= r

\* ------------------------------------------------------- scene manager
\* The manager and the shared services as one value, so that an operation
\* that calls another (init -> switchScene, addScene -> removeScene) is the
\* composition of the two.  `dropped` collects the units the running
\* operation has taken out of the registry so far.
World ==
    [scenes |-> scenes, currentSceneName |-> currentSceneName,
     isInitialized |-> isInitialized, cameraManager |-> cameraManager,
     lightsManager |-> lightsManager, modelLoader |-> modelLoader,
     camera |-> camera, lights |-> lights, dropped |-> {}]

\* An operation's result: the world it leaves and how it ended
\* ("ok", a warning or early return, or the error it threw).
Ret(w, outcome) == [w |-> w, outcome |-> outcome]

\* Whether this.scenes[sceneName] is set; a null name is no key.
hasScene(w, sceneName) ==
    IF sceneName = NULL THEN FALSE ELSE w.scenes[sceneName] # NoUnit

\* getCurrentScene(): whether it returns a scene graph (not null).
getCurrentScene(w) ==
    IF ~hasScene(w, w.currentSceneName) THEN FALSE
    ELSE getScene(w.scenes[w.currentSceneName])

\* getAvailableScenes(): Object.keys(this.scenes)
getAvailableScenes(w) == {n \in SceneNames : hasScene(w, n)}

\* applyCameraSettings(sceneName)
applyCameraSettings(w, sceneName) ==
    IF ~w.cameraManager THEN w
    ELSE CASE sceneName = "scene1" ->
                [w EXCEPT !.camera = [position |-> <<0, 5, 10>>, target |-> <<0, 0, 0>>]]
           [] sceneName = "scene2" ->
                [w EXCEPT !.camera = [position |-> <<5, 8, 15>>, target |-> <<0, 2, 0>>]]
           [] OTHER -> w

\* An applyLightingSettings with the two presets exchanged.
applyLightingSettingsSwapped(w, sceneName) ==
    IF ~w.lightsManager THEN w
    ELSE CASE sceneName = "scene1" -> [w EXCEPT !.lights = applyPreset(w.lights, "night")]
           [] sceneName = "scene2" -> [w EXCEPT !.lights = applyPreset(w.lights, "daylight")]
           [] OTHER -> w

\* applyLightingSettings(sceneName)
applyLightingSettings(w, sceneName) ==
    IF ~w.lightsManager THEN w
    ELSE CASE sceneName = "scene1" -> [w EXCEPT !.lights = applyPreset(w.lights, "daylight")]
           [] sceneName = "scene2" -> [w EXCEPT !.lights = applyPreset(w.lights, "night")]
           [] OTHER -> w

\* A transition that rebuilds the target unit.
performSceneTransitionReinit(w, newSceneName) ==
    IF ~getScene(w.scenes[newSceneName])
    THEN Ret(w, "NotInitializedError")
    ELSE LET r == unitInit(NewUnit(w.scenes[newSceneName].cls), w.lights,
                           w.lightsManager, "none")
             w2 == [w EXCEPT !.scenes[newSceneName] = r.unit]
         IN Ret(applyLightingSettings(applyCameraSettings(w2, newSceneName),
                                      newSceneName), "ok")

\* performSceneTransition(newSceneName): throws when the target unit has
\* no scene graph, otherwise applies the camera and lighting settings.
performSceneTransition(w, newSceneName) ==
    IF ~getScene(w.scenes[newSceneName])
    THEN Ret(w, "NotInitializedError")
    ELSE Ret(applyLightingSettings(applyCameraSettings(w, newSceneName), newSceneName), "ok")

\* A switchScene without the registry lookup.
switchSceneNoLookup(w, sceneName) ==
    IF w.currentSceneName = sceneName THEN Ret(w, "already")
    ELSE Ret([applyLightingSettings(applyCameraSettings(w, sceneName), sceneName)
                 EXCEPT !.currentSceneName = sceneName], "ok")

\* A switchScene without the early return for the active scene.
switchSceneNoEarlyReturn(w, sceneName) ==
    IF ~hasScene(w, sceneName) THEN Ret(w, "NotFoundError")
    ELSE LET t == performSceneTransition(w, sceneName) IN
         IF t.outcome # "ok" THEN t
         ELSE Ret([t.w EXCEPT !.currentSceneName = sceneName], "ok")

\* A switchScene that never assigns the active name.
switchSceneForgetsName(w, sceneName) ==
    IF ~hasScene(w, sceneName) THEN Ret(w, "NotFoundError")
    ELSE IF w.currentSceneName = sceneName THEN Ret(w, "already")
    ELSE performSceneTransition(w, sceneName)

\* switchScene(sceneName)
switchScene(w, sceneName) ==
    IF ~hasScene(w, sceneName) THEN Ret(w, "NotFoundError")
    ELSE IF w.currentSceneName = sceneName THEN Ret(w, "already")
    ELSE LET t == performSceneTransition(w, sceneName) IN
         IF t.outcome # "ok" THEN t
         ELSE Ret([t.w EXCEPT !.currentSceneName = sceneName], "ok")

\* this.scenes[sceneName] = unit; await unit.init(camera, lights, loader)
\* (initializeScenes, addScene): the unit is registered before its init
\* runs and stays registered when the init throws.
registerAndInit(w, sceneName, cls, fail) ==
    LET r == unitInit(NewUnit(cls), w.lights, w.lightsManager, fail)
    IN Ret([w EXCEPT !.scenes[sceneName] = r.unit,
                     !.lights = r.lights,
                     !.dropped = IF hasScene(w, sceneName)
                                 THEN @ \cup {w.scenes[sceneName]} ELSE @],
           IF r.threw THEN "InitializationError" ELSE "ok")

\* initializeScenes(): Scene1 then Scene2; the first failure is rethrown
\* and the rest is skipped.
initializeScenes(w, fail1, fail2) ==
    LET a == registerAndInit(w, "scene1", "Scene1", fail1) IN
    IF a.outcome # "ok" THEN a
    ELSE registerAndInit(a.w, "scene2", "Scene2", fail2)

\* init(cameraManager, lightsManager, modelLoader)
init(w, fail1, fail2) ==
    LET w1 == [w EXCEPT !.cameraManager = TRUE, !.lightsManager = TRUE,
                        !.modelLoader = TRUE]
        a  == initializeScenes(w1, fail1, fail2)
    IN IF a.outcome # "ok" THEN a
       ELSE LET s == switchScene(a.w, "scene1") IN
            IF s.outcome \notin {"ok", "already"} THEN s
            ELSE Ret([s.w EXCEPT !.isInitialized = TRUE], "ok")

\* A removeScene without the active-scene test.
removeSceneAllowsActive(w, sceneName) ==
    IF ~hasScene(w, sceneName) THEN Ret(w, "warned")
    ELSE Ret([w EXCEPT !.scenes[sceneName] = NoUnit,
                       !.dropped = @ \cup {unitDispose(w.scenes[sceneName])}], "ok")

\* A removeScene that disposes the active unit before it refuses.
removeSceneDisposesActive(w, sceneName) ==
    IF ~hasScene(w, sceneName) THEN Ret(w, "warned")
    ELSE IF w.currentSceneName = sceneName
    THEN Ret([w EXCEPT !.scenes[sceneName] = unitDispose(@)], "ActiveSceneRemovalError")
    ELSE Ret([w EXCEPT !.scenes[sceneName] = NoUnit,
                       !.dropped = @ \cup {unitDispose(w.scenes[sceneName])}], "ok")

\* A removeScene that deletes the key without disposing the unit.
removeSceneNoDispose(w, sceneName) ==
    IF ~hasScene(w, sceneName) THEN Ret(w, "warned")
    ELSE IF w.currentSceneName = sceneName THEN Ret(w, "ActiveSceneRemovalError")
    ELSE Ret([w EXCEPT !.scenes[sceneName] = NoUnit,
                       !.dropped = @ \cup {w.scenes[sceneName]}], "ok")

\* removeScene(sceneName)
removeScene(w, sceneName) ==
    IF ~hasScene(w, sceneName) THEN Ret(w, "warned")
    ELSE IF w.currentSceneName = sceneName THEN Ret(w, "ActiveSceneRemovalError")
    ELSE Ret([w EXCEPT !.scenes[sceneName] = NoUnit,
                       !.dropped = @ \cup {unitDispose(w.scenes[sceneName])}], "ok")

\* An addScene that overwrites the key without removing the old unit.
addSceneOverwrites(w, sceneName, cls, fail) ==
    IF w.cameraManager /\ w.lightsManager /\ w.modelLoader
    THEN registerAndInit(w, sceneName, cls, fail)
    ELSE Ret([w EXCEPT !.scenes[sceneName] = NewUnit(cls),
                       !.dropped = IF hasScene(w, sceneName)
                                   THEN @ \cup {w.scenes[sceneName]} ELSE @], "ok")

\* addScene(sceneName, sceneClass) with a newly constructed unit.
addScene(w, sceneName, cls, fail) ==
    LET r == IF hasScene(w, sceneName) THEN removeScene(w, sceneName) ELSE Ret(w, "ok")
    IN IF r.outcome # "ok" THEN r
       ELSE IF w.cameraManager /\ w.lightsManager /\ w.modelLoader
            THEN registerAndInit(r.w, sceneName, cls, fail)
            ELSE Ret([r.w EXCEPT !.scenes[sceneName] = NewUnit(cls)], "ok")

\* The test every model operation starts with: no current name, or no
\* unit under it.
noActiveScene(w) == ~hasScene(w, w.currentSceneName)

\* A loadModelIntoCurrentScene that loads into scene1 when no scene is active.
loadModelFallsBackToScene1(w, modelType) ==
    LET target == IF noActiveScene(w) THEN "scene1" ELSE w.currentSceneName
        r == unitLoadModel(w.scenes[target], modelType)
    IN Ret([w EXCEPT !.scenes[target] = r.unit], IF r.threw THEN "TypeError" ELSE "ok")

\* loadModelIntoCurrentScene(modelType)
loadModelIntoCurrentScene(w, modelType) ==
    IF noActiveScene(w) THEN Ret(w, "NoActiveSceneError")
    ELSE LET r == unitLoadModel(w.scenes[w.currentSceneName], modelType) IN
         Ret([w EXCEPT !.scenes[w.currentSceneName] = r.unit],
             IF r.threw THEN "TypeError" ELSE "ok")

\* removeModelFromCurrentScene(modelType)
removeModelFromCurrentScene(w, modelType) ==
    IF noActiveScene(w) THEN Ret(w, "warned")
    ELSE Ret([w EXCEPT !.scenes[w.currentSceneName] = unitRemoveModel(@, modelType)], "ok")

\* clearCurrentSceneModels()
clearCurrentSceneModels(w) ==
    IF noActiveScene(w) THEN Ret(w, "warned")
    ELSE Ret([w EXCEPT !.scenes[w.currentSceneName] = unitClearModels(@)], "ok")

\* An update that does not test isInitialized.
updateIgnoresInitialized(w) ==
    IF ~hasScene(w, w.currentSceneName) THEN Ret(w, "skipped")
    ELSE Ret([w EXCEPT !.scenes[w.currentSceneName] = unitUpdate(@)], "ok")

\* An update that forwards the tick to every registered unit.
updateAllUnits(w) ==
    IF (~w.isInitialized) \/ w.currentSceneName = NULL THEN Ret(w, "skipped")
    ELSE Ret([w EXCEPT !.scenes = [n \in SceneNames |-> unitUpdate(w.scenes[n])]], "ok")

\* update(deltaTime)
update(w) ==
    IF (~w.isInitialized) \/ w.currentSceneName = NULL THEN Ret(w, "skipped")
    ELSE IF ~hasScene(w, w.currentSceneName) THEN Ret(w, "skipped")
    ELSE Ret([w EXCEPT !.scenes[w.currentSceneName] = unitUpdate(@)], "ok")

\* A dispose that leaves the active name set.
disposeKeepsActive(w) ==
    Ret([w EXCEPT !.scenes = [n \in SceneNames |-> NoUnit],
                  !.dropped = @ \cup {unitDispose(w.scenes[n]) : n \in getAvailableScenes(w)},
                  !.cameraManager = FALSE, !.lightsManager = FALSE,
                  !.modelLoader = FALSE, !.isInitialized = FALSE], "ok")

\* dispose(): every registered unit is disposed, then every field is reset.
dispose(w) ==
    Ret([w EXCEPT !.scenes = [n \in SceneNames |-> NoUnit],
                  !.dropped = @ \cup {unitDispose(w.scenes[n]) : n \in getAvailableScenes(w)},
                  !.currentSceneName = NULL,
                  !.cameraManager = FALSE, !.lightsManager = FALSE,
                  !.modelLoader = FALSE, !.isInitialized = FALSE], "ok")

\* --------------------------------------------------------------- actions
\* The state after construction: new SceneManager(), with the camera and
\* the lights initialised by the application before the manager is used.
Init ==
    /\ scenes = [n \in SceneNames |-> NoUnit]
    /\ currentSceneName = NULL
    /\ isInitialized = FALSE
    /\ cameraManager = FALSE
    /\ lightsManager = FALSE
    /\ modelLoader = FALSE
    /\ camera = CameraDefault
    /\ lights = LightsInitial
    /\ suspended = <<>>

\* The operation's result becomes the next state: the manager's fields,
CommitManager(r) ==
    /\ scenes' = r.w.scenes
    /\ currentSceneName' = r.w.currentSceneName
    /\ isInitialized' = r.w.isInitialized
    /\ cameraManager' = r.w.cameraManager
    /\ lightsManager' = r.w.lightsManager
    /\ modelLoader' = r.w.modelLoader

\* and what the call did to the shared camera and lights.
CommitServices(r) ==
    /\ camera' = r.w.camera
    /\ lights' = r.w.lights

\* Loaded models resident in the registered units.
TotalModels ==
    LET RECURSIVE Sum(_)
        Sum(S) == IF S = {} THEN 0
                  ELSE LET n == CHOOSE m \in S : TRUE
                       IN getModelCount(scenes[n]) + Sum(S \ {n})
    IN Sum(SceneNames)

\* Animation steps applied to the registered units.
TotalTicks ==
    LET RECURSIVE Sum(_)
        Sum(S) == IF S = {} THEN 0
                  ELSE LET n == CHOOSE m \in S : TRUE
                       IN unitTicks(scenes[n]) + Sum(S \ {n})
    IN Sum(SceneNames)

\* The class of the unit a caller registers under a name: a Scene1 under
\* "scene1", a Scene2 under the other names.
ClassFor(sceneName) == IF sceneName = "scene1" THEN "Scene1" ELSE "Scene2"

ManagerInit(fail1, fail2) ==
    /\ CommitManager(init(World, fail1, fail2))
    /\ CommitServices(init(World, fail1, fail2))
    /\ UNCHANGED suspended

SwitchScene(sceneName) ==
    /\ CommitManager(switchScene(World, sceneName))
    /\ CommitServices(switchScene(World, sceneName))
    /\ UNCHANGED suspended

AddScene(sceneName, fail) ==
    /\ CommitManager(addScene(World, sceneName, ClassFor(sceneName), fail))
    /\ CommitServices(addScene(World, sceneName, ClassFor(sceneName), fail))
    /\ UNCHANGED suspended

RemoveScene(sceneName) ==
    /\ CommitManager(removeScene(World, sceneName))
    /\ CommitServices(removeScene(World, sceneName))
    /\ UNCHANGED suspended

LoadModel(modelType) ==
    /\ TotalModels < MaxModels
    /\ CommitManager(loadModelIntoCurrentScene(World, modelType))
    /\ CommitServices(loadModelIntoCurrentScene(World, modelType))
    /\ UNCHANGED suspended

RemoveModel(modelType) ==
    /\ CommitManager(removeModelFromCurrentScene(World, modelType))
    /\ CommitServices(removeModelFromCurrentScene(World, modelType))
    /\ UNCHANGED suspended

ClearModels ==
    /\ CommitManager(clearCurrentSceneModels(World))
    /\ CommitServices(clearCurrentSceneModels(World))
    /\ UNCHANGED suspended

Update ==
    /\ TotalTicks < MaxTicks
    /\ CommitManager(update(World))
    /\ CommitServices(update(World))
    /\ UNCHANGED suspended

Dispose ==
    /\ CommitManager(dispose(World))
    /\ CommitServices(dispose(World))
    /\ UNCHANGED suspended

Next ==
    \/ \E fail1 \in FailPoints, fail2 \in FailPoints : ManagerInit(fail1, fail2)
    \/ \E sceneName \in SceneNames : SwitchScene(sceneName)
    \/ \E sceneName \in SceneNames, fail \in FailPoints : AddScene(sceneName, fail)
    \/ \E sceneName \in SceneNames : RemoveScene(sceneName)
    \/ \E modelType \in ModelTypeInputs : LoadModel(modelType)
    \/ \E modelType \in ModelTypeInputs : RemoveModel(modelType)
    \/ ClearModels
    \/ Update
    \/ Dispose

Spec == Init /\ [][Next]_vars

\* ---------------------------------------------------------------- claims
\* The claims below are stated on the operations themselves: in every
\* reachable state the operation is applied to that state and its result is
\* compared with what the claim says, which covers every call the
\* specification can make.

\* The recognized model types.
KnownModelTypes == {"cube", "sphere"}

\* The unit of the active scene.
ActiveUnit == scenes[currentSceneName]

\* A world with the per-operation collection of dropped units emptied.
Settled(w) == [w EXCEPT !.dropped = {}]

\* A unit after dispose(): no objects, no scene graph, not initialized.
IsDisposed(u) == u.objects = <<>> /\ ~u.scene /\ ~u.isInitialized

\* C1: after any sequence of completed manager operations, currentSceneName
\* is null or a key currently present in the scenes registry.
C1_ActiveNameRegistered ==
    currentSceneName = NULL \/ hasScene(World, currentSceneName)

\* C1 witness: scene1 is active on an initialized manager from which
\* scene2 has been removed.
C1_Witness ==
    /\ currentSceneName = "scene1"
    /\ isInitialized
    /\ ~hasScene(World, "scene2")

\* C2: for every registered name N, switchScene(N) completes
\* without error and the active name is N afterwards.
C2_SwitchToEveryRegistered ==
    \A n \in SceneNames :
        hasScene(World, n) =>
            LET r == switchScene(World, n) IN
            /\ r.outcome \in {"ok", "already"}
            /\ r.w.currentSceneName = n

\* C2 amended: for every registered name N whose unit has a scene graph,
\* switchScene(N) completes without error and the active name is N
\* afterwards; for a registered unit without a scene graph it throws and
\* changes nothing.
C2_SwitchToRegisteredWithSceneGraph ==
    \A n \in SceneNames :
        hasScene(World, n) =>
            LET r == switchScene(World, n) IN
            IF getScene(scenes[n])
            THEN /\ r.outcome \in {"ok", "already"}
                 /\ r.w.currentSceneName = n
            ELSE r = Ret(World, "NotInitializedError")

\* C2 witness: a scene registered through addScene has become the active
\* scene.
C2_Witness ==
    /\ currentSceneName = "scene3"
    /\ scenes["scene3"].isInitialized
    /\ isInitialized

\* C3: switchScene(name) with name the active scene changes nothing: active
\* name, registry, every unit, camera and lighting are as before, and the
\* call returns early, before any preset is applied.
C3_SwitchToActiveIsNoOp ==
    currentSceneName # NULL =>
        switchScene(World, currentSceneName) = Ret(World, "already")

\* C3 witness: switchScene(active) returns early in a state where the
\* active unit holds a model and the lighting is not the scene's own preset.
C3_Witness ==
    /\ currentSceneName = "scene1"
    /\ getModelCount(ActiveUnit) > 0
    /\ lights = NightPreset
    /\ switchScene(World, currentSceneName).outcome = "already"

\* C4: switchScene(name) with name absent from the registry fails with the
\* not-found error and leaves active name, registry, camera and lighting
\* as they were.
C4_SwitchToAbsentFails ==
    \A n \in SceneNames :
        ~hasScene(World, n) => switchScene(World, n) = Ret(World, "NotFoundError")

\* C4 witness: a switch to an absent name fails while scene2 is active
\* under its own presets.
C4_Witness ==
    /\ currentSceneName = "scene2"
    /\ lights = NightPreset
    /\ \E n \in SceneNames :
          ~hasScene(World, n) /\ switchScene(World, n).outcome = "NotFoundError"

\* C5: removeScene(active name) always fails with the active-scene-removal
\* error; the unit is not disposed, the registry and the active name are
\* unchanged.
C5_RemoveActiveFails ==
    currentSceneName # NULL =>
        removeScene(World, currentSceneName) = Ret(World, "ActiveSceneRemovalError")

\* C5 witness: removing the active scene fails while its unit holds models.
C5_Witness ==
    /\ currentSceneName # NULL
    /\ getModelCount(ActiveUnit) > 0
    /\ removeScene(World, currentSceneName).outcome = "ActiveSceneRemovalError"

\* C6: with an active scene and t in {cube, sphere}, loading t raises the
\* active scene's model count by exactly 1 and removing t right after
\* returns it to the value before the load, whatever was loaded already.
C6_LoadThenRemoveRestoresCount ==
    ~noActiveScene(World) =>
        \A t \in KnownModelTypes :
            LET a == loadModelIntoCurrentScene(World, t)
                b == removeModelFromCurrentScene(a.w, t)
            IN /\ a.outcome = "ok"
               /\ getModelCount(a.w.scenes[currentSceneName])
                      = getModelCount(ActiveUnit) + 1
               /\ b.outcome = "ok"
               /\ getModelCount(b.w.scenes[currentSceneName])
                      = getModelCount(ActiveUnit)

\* C6 witness: a cube is loaded into and removed from an active unit that
\* already holds a cube and a sphere.
C6_Witness ==
    /\ currentSceneName # NULL
    /\ \E i, j \in 1..Len(ActiveUnit.objects) :
          /\ ActiveUnit.objects[i].modelType = "cube"
          /\ ActiveUnit.objects[j].modelType = "sphere"
    /\ LET a == loadModelIntoCurrentScene(World, "cube")
           b == removeModelFromCurrentScene(a.w, "cube")
       IN /\ getModelCount(a.w.scenes[currentSceneName]) = 3
          /\ getModelCount(b.w.scenes[currentSceneName]) = 2

\* C7: clearCurrentSceneModels() leaves the active scene with model count
\* 0 and with the same static decor in the same order; no other unit
\* changes.
C7_ClearKeepsDecor ==
    ~noActiveScene(World) =>
        LET r == clearCurrentSceneModels(World) IN
        /\ r.outcome = "ok"
        /\ getModelCount(r.w.scenes[currentSceneName]) = 0
        /\ r.w.scenes[currentSceneName].objects = SelectSeq(ActiveUnit.objects, isDecor)
        /\ \A n \in SceneNames \ {currentSceneName} : r.w.scenes[n] = scenes[n]
        /\ r.w.currentSceneName = currentSceneName

\* C7 witness: the active unit holds a model, so does another unit, and
\* clearing leaves the active unit with its decor only.
C7_Witness ==
    /\ currentSceneName # NULL
    /\ getModelCount(ActiveUnit) > 0
    /\ \E n \in SceneNames \ {currentSceneName} : getModelCount(scenes[n]) > 0
    /\ LET u == clearCurrentSceneModels(World).w.scenes[currentSceneName]
       IN getModelCount(u) = 0 /\ Len(u.objects) = Len(DecorOf(u.cls))

\* What a model operation or an update on the active scene may do next.
ModelOps(w) ==
    {loadModelIntoCurrentScene(w, t).w : t \in ModelTypeInputs}
      \cup {removeModelFromCurrentScene(w, t).w : t \in ModelTypeInputs}
      \cup {clearCurrentSceneModels(w).w, update(w).w, w}

\* C8: switchScene never disposes or re-initializes a unit: no switch
\* changes any unit, and after switching from the active scene A to B,
\* any two model operations or updates on B, and back to A, A's unit is
\* what it was when A was left.
C8_SwitchPreservesUnits ==
    /\ \A n \in SceneNames : switchScene(World, n).w.scenes = scenes
    /\ ~noActiveScene(World) =>
         \A b \in SceneNames \ {currentSceneName} :
            LET there == switchScene(World, b) IN
            there.outcome = "ok" =>
                \A w1 \in ModelOps(there.w) : \A w2 \in ModelOps(w1) :
                    LET back == switchScene(w2, currentSceneName) IN
                    /\ back.outcome = "ok"
                    /\ back.w.currentSceneName = currentSceneName
                    /\ back.w.scenes[currentSceneName] = ActiveUnit

\* C8 witness: scene1 is active and holds a model, and scene2, left
\* earlier, still holds the model loaded while it was active.
C8_Witness ==
    /\ currentSceneName = "scene1"
    /\ getModelCount(scenes["scene1"]) > 0
    /\ getModelCount(scenes["scene2"]) > 0
    /\ scenes["scene2"].isInitialized
    /\ switchScene(World, "scene2").outcome = "ok"

\* C9: dispose() disposes every registered unit and leaves an empty
\* registry, no active scene and isInitialized false; a second dispose()
\* changes nothing.
C9_DisposeResetsManager ==
    LET r == dispose(World) IN
    /\ r.outcome = "ok"
    /\ getAvailableScenes(r.w) = {}
    /\ r.w.currentSceneName = NULL
    /\ ~r.w.isInitialized
    /\ \A u \in r.w.dropped : IsDisposed(u)
    /\ \A n \in getAvailableScenes(World) :
          \E u \in r.w.dropped : u.cls = scenes[n].cls
    /\ Settled(dispose(Settled(r.w)).w) = Settled(r.w)

\* C9 witness: a manager that had been initialized (scene2's night preset
\* was applied) has been disposed, and disposing it again changes nothing.
C9_Witness ==
    /\ getAvailableScenes(World) = {}
    /\ currentSceneName = NULL
    /\ ~isInitialized /\ ~cameraManager
    /\ lights = NightPreset
    /\ Settled(dispose(World).w) = World

\* The camera position and target of scene1's preset.
Scene1Camera == [position |-> <<0, 5, 10>>, target |-> <<0, 0, 0>>]

\* C10: when both units initialize without error, init ends
\* with exactly scene1 and scene2 registered, both initialized with model
\* count 0, scene1 active, isInitialized true, and the daylight preset and
\* the scene1 camera position in effect.
C10_InitEndsActiveScene1 ==
    LET r == init(World, "none", "none") IN
    /\ r.outcome = "ok"
    /\ getAvailableScenes(r.w) = {"scene1", "scene2"}
    /\ \A n \in {"scene1", "scene2"} :
          r.w.scenes[n].isInitialized /\ getModelCount(r.w.scenes[n]) = 0
    /\ r.w.currentSceneName = "scene1"
    /\ r.w.isInitialized
    /\ r.w.lights = DaylightPreset
    /\ r.w.camera = Scene1Camera

\* The ways init can fail: the first or the second unit's init throws.
InitFailures == {<<"throws", "none">>, <<"throws", "throws">>, <<"none", "throws">>}

\* C11: if the initialization of either unit fails during init, init fails
\* with that error, the default switch is not performed, and afterwards
\* the manager has no active scene and isInitialized is false.
C11_InitFailureLeavesUninitialized ==
    \A f \in InitFailures :
        LET r == init(World, f[1], f[2]) IN
        /\ r.outcome = "InitializationError"
        /\ r.w.camera = camera
        /\ r.w.currentSceneName = NULL
        /\ ~r.w.isInitialized

\* C12: loadModelIntoCurrentScene(modelType) with no active scene fails
\* with the no-active-scene error and changes no unit and no manager
\* state; with an active scene it delegates to exactly that unit's
\* loadModel.
C12_LoadNeedsActiveScene ==
    \A t \in ModelTypeInputs :
        LET r == loadModelIntoCurrentScene(World, t) IN
        IF noActiveScene(World)
        THEN r = Ret(World, "NoActiveSceneError")
        ELSE LET d == unitLoadModel(ActiveUnit, t) IN
             /\ r.w = [World EXCEPT !.scenes[currentSceneName] = d.unit]
             /\ r.outcome = IF d.threw THEN "TypeError" ELSE "ok"

\* C12 witness: units are registered and hold their decor, no scene is
\* active, and a load fails with the no-active-scene error.
C12_Witness ==
    /\ currentSceneName = NULL
    /\ scenes["scene1"].isInitialized
    /\ loadModelIntoCurrentScene(World, "cube").outcome = "NoActiveSceneError"

\* How a call ends when it raises no error.
NormalOutcomes == {"ok", "warned", "skipped", "already"}

\* C13: in every manager state other than Initialized-Active (manager not
\* initialized, or no active scene), update and each model operation
\* return normally without raising an error and leave all manager and
\* unit state unchanged.
C13_NoOpsOutsideInitializedActive ==
    ((~isInitialized) \/ currentSceneName = NULL) =>
        /\ update(World).outcome \in NormalOutcomes
        /\ update(World).w = World
        /\ clearCurrentSceneModels(World).outcome \in NormalOutcomes
        /\ clearCurrentSceneModels(World).w = World
        /\ \A t \in ModelTypeInputs :
              /\ loadModelIntoCurrentScene(World, t).outcome \in NormalOutcomes
              /\ loadModelIntoCurrentScene(World, t).w = World
              /\ removeModelFromCurrentScene(World, t).outcome \in NormalOutcomes
              /\ removeModelFromCurrentScene(World, t).w = World

\* C13 amended: with no active scene, update, removeModelFromCurrentScene
\* and clearCurrentSceneModels return normally and change nothing, and
\* loadModelIntoCurrentScene fails with the no-active-scene error and
\* changes nothing; update changes nothing either whenever the manager is
\* not initialized; the model operations act on the active unit whenever
\* there is one, initialized manager or not.
C13_NoOpsWithoutActiveScene ==
    /\ ((~isInitialized) \/ currentSceneName = NULL) =>
          update(World) = Ret(World, "skipped")
    /\ noActiveScene(World) =>
          /\ clearCurrentSceneModels(World) = Ret(World, "warned")
          /\ \A t \in ModelTypeInputs :
                /\ removeModelFromCurrentScene(World, t) = Ret(World, "warned")
                /\ loadModelIntoCurrentScene(World, t) = Ret(World, "NoActiveSceneError")
    /\ ((~isInitialized) /\ ~noActiveScene(World)) =>
          LET r == loadModelIntoCurrentScene(World, "cube") IN
          /\ r.outcome = "ok"
          /\ getModelCount(r.w.scenes[currentSceneName]) = getModelCount(ActiveUnit) + 1
          /\ getModelCount(clearCurrentSceneModels(r.w).w.scenes[currentSceneName]) = 0

\* C13 witness: the manager is not initialized, an initialized unit is
\* active all the same, and update skips it.
C13_Witness ==
    /\ ~isInitialized
    /\ currentSceneName # NULL
    /\ ActiveUnit.isInitialized
    /\ unitUpdate(ActiveUnit) # ActiveUnit
    /\ update(World).outcome = "skipped"

\* C14: the manager has an active scene only while it is initialized:
\* currentSceneName non-null implies isInitialized.
C14_ActiveOnlyWhileInitialized ==
    currentSceneName # NULL => isInitialized

\* Whether the three shared services are set on the manager.
ServicesSet == cameraManager /\ lightsManager /\ modelLoader

\* A newly built unit of the class after an init that completed: scene
\* graph, decor, initialized, no model.
FreshInitialized(cls) ==
    [cls |-> cls, scene |-> TRUE, isInitialized |-> TRUE,
     objects |-> [i \in 1..Len(DecorOf(cls)) |-> DecorObject(cls, i)]]

\* What addScene(n, new cls unit) promises when the unit's init does not
\* throw: registry[n] is the new unit, initialized exactly when the
\* services are set, the unit registered before is disposed, and no
\* other entry and no other manager field changes.
AddSceneReplaces(n, cls) ==
    LET r == addScene(World, n, cls, "none") IN
    /\ r.outcome = "ok"
    /\ r.w.scenes[n] = IF ServicesSet THEN FreshInitialized(cls) ELSE NewUnit(cls)
    /\ r.w.dropped = IF hasScene(World, n) THEN {unitDispose(scenes[n])} ELSE {}
    /\ \A u \in r.w.dropped : IsDisposed(u)
    /\ \A m \in SceneNames \ {n} : r.w.scenes[m] = scenes[m]
    /\ r.w.currentSceneName = currentSceneName
    /\ r.w.isInitialized = isInitialized

\* C15: for every name, including a registered one and the active one,
\* addScene(name, unit) ends with registry[name] being the new unit and
\* the unit registered before disposed; the new unit is initialized during
\* the call exactly when the three services are set.
C15_AddSceneReplacesAnyName ==
    \A n \in SceneNames, cls \in UnitClasses : AddSceneReplaces(n, cls)

\* C15 amended: the same for every name other than the active scene's;
\* for the active scene's name addScene fails with the
\* active-scene-removal error and changes nothing.  When the new unit's
\* init throws, the unit stays registered with its scene graph, not
\* initialized, and the old unit is disposed all the same.
C15_AddSceneReplacesInactiveName ==
    \A n \in SceneNames, cls \in UnitClasses :
        IF n = currentSceneName
        THEN \A fail \in FailPoints :
                addScene(World, n, cls, fail) = Ret(World, "ActiveSceneRemovalError")
        ELSE /\ AddSceneReplaces(n, cls)
             /\ LET r == addScene(World, n, cls, "throws") IN
                /\ r.outcome = IF ServicesSet THEN "InitializationError" ELSE "ok"
                /\ r.w.scenes[n].cls = cls
                /\ r.w.scenes[n].scene = ServicesSet
                /\ ~r.w.scenes[n].isInitialized
                /\ \A u \in r.w.dropped : IsDisposed(u)

\* C15 witness: the services are set, scene2 is registered with a model,
\* not active, and addScene("scene2") replaces it by an initialized unit
\* and disposes it.
C15_Witness ==
    /\ ServicesSet
    /\ currentSceneName = "scene1"
    /\ getModelCount(scenes["scene2"]) > 0
    /\ LET r == addScene(World, "scene2", "Scene2", "none") IN
       /\ r.w.scenes["scene2"] = FreshInitialized("Scene2")
       /\ r.w.dropped = {unitDispose(scenes["scene2"])}

\* C16: removeScene(name) for a registered name that is not active
\* disposes that unit and deletes exactly that key, leaving the active
\* name and all other entries unchanged; for a name that is not
\* registered it returns without error and changes nothing.
C16_RemoveSceneDeletesOneKey ==
    \A n \in SceneNames :
        LET r == removeScene(World, n) IN
        IF ~hasScene(World, n) THEN r = Ret(World, "warned")
        ELSE n # currentSceneName =>
            /\ r.outcome = "ok"
            /\ getAvailableScenes(r.w) = getAvailableScenes(World) \ {n}
            /\ \A m \in SceneNames \ {n} : r.w.scenes[m] = scenes[m]
            /\ r.w.currentSceneName = currentSceneName
            /\ r.w.dropped = {unitDispose(scenes[n])}
            /\ \A u \in r.w.dropped : IsDisposed(u)
            /\ Settled(r.w) = [World EXCEPT !.scenes[n] = NoUnit]

\* C16 witness: scene1 is active, scene2 holds a model, and removing
\* scene2 disposes it and leaves scene1 and scene3 registered.
C16_Witness ==
    /\ currentSceneName = "scene1"
    /\ getModelCount(scenes["scene2"]) > 0
    /\ hasScene(World, "scene3")
    /\ LET r == removeScene(World, "scene2") IN
       r.outcome = "ok" /\ getAvailableScenes(r.w) = {"scene1", "scene3"}

\* The units dispose() can be called on: the registered ones and the
\* newly constructed ones.
Units == {scenes[n] : n \in getAvailableScenes(World)} \cup {NewUnit(cls) : cls \in UnitClasses}

\* C17: a unit's dispose() leaves objects empty, the scene-graph handle
\* null and isInitialized false, and it is idempotent: dispose() on an
\* already-disposed or never-initialized unit changes no state.
C17_UnitDisposeIdempotent ==
    \A u \in Units :
        /\ IsDisposed(unitDispose(u))
        /\ unitDispose(unitDispose(u)) = unitDispose(u)
        /\ (~u.scene) => unitDispose(u) = u

\* C17 witness: a registered unit holds decor, a model and animation
\* steps, another registered unit was never initialized; dispose()
\* empties the first and leaves the second as it is.
C17_Witness ==
    \E n, m \in getAvailableScenes(World) :
        /\ getModelCount(scenes[n]) > 0
        /\ unitTicks(scenes[n]) > 0
        /\ unitDispose(scenes[n]) # scenes[n]
        /\ scenes[m] = NewUnit(scenes[m].cls)
        /\ unitDispose(scenes[m]) = scenes[m]

\* The decor of Scene2 built as a THREE.Group: the group has no geometry
\* and no material of its own, its child meshes hold them.
Scene2Groups == {"CrystalFormation", "FloatingPlatforms", "SpiralStructure", "GlowingOrbs"}

\* obj.geometry / obj.material are set on the object itself.
ownsGeometry(obj) == obj.name \notin Scene2Groups

\* The entries of objects whose geometry and material dispose() releases:
\* those it finds on the object itself.
unitDisposeReleases(u) ==
    IF u.scene THEN {i \in 1..Len(u.objects) : ownsGeometry(u.objects[i])} ELSE {}

\* C18: after a unit's dispose(), every geometry and material the unit
\* created during init or loadModel and that removeModel / clearModels
\* has not released already has been released.
C18_DisposeReleasesEveryResource ==
    \A u \in Units : unitDisposeReleases(u) = 1..Len(u.objects)

\* C19: a load request with a model type outside the recognized set
\* raises no error and changes no state: objects, model count and scene
\* graph are the same before and after, on the unit and through
\* loadModelIntoCurrentScene.
C19_UnknownModelTypeIsNoOp ==
    \A t \in ModelTypeInputs \ KnownModelTypes :
        /\ \A u \in Units : unitLoadModel(u, t) = [unit |-> u, threw |-> FALSE]
        /\ loadModelIntoCurrentScene(World, t).w = World
        /\ ~noActiveScene(World) => loadModelIntoCurrentScene(World, t) = Ret(World, "ok")

\* C19 witness: the active unit holds a model and a load of an unknown
\* type returns without changing it.
C19_Witness ==
    /\ currentSceneName # NULL
    /\ getModelCount(ActiveUnit) > 0
    /\ loadModelIntoCurrentScene(World, "pyramid") = Ret(World, "ok")
    /\ loadModelIntoCurrentScene(World, "cube").w # World

\* C20: a unit's update is idempotent in visual state for a fixed
\* wall-clock time: two calls at the same clock value leave every
\* animated property of the unit's objects equal to what one call leaves.
C20_UpdateIdempotentAtFixedClock ==
    \A u \in Units : unitUpdate(unitUpdate(u)) = unitUpdate(u)

\* The camera position and target of scene2's preset.
Scene2Camera == [position |-> <<5, 8, 15>>, target |-> <<0, 2, 0>>]

\* C21: every switchScene(name) that changes the active scene applies the
\* target's preset before it returns: daylight and camera (0,5,10) ->
\* (0,0,0) for scene1, night and camera (5,8,15) -> (0,2,0) for scene2;
\* for any other registered name camera and lighting are left unchanged.
C21_SwitchAppliesTargetPreset ==
    \A n \in SceneNames :
        LET r == switchScene(World, n) IN
        (r.outcome = "ok" /\ r.w.currentSceneName # currentSceneName) =>
            CASE n = "scene1" -> r.w.lights = DaylightPreset /\ r.w.camera = Scene1Camera
              [] n = "scene2" -> r.w.lights = NightPreset /\ r.w.camera = Scene2Camera
              [] OTHER -> r.w.lights = lights /\ r.w.camera = camera

\* C21 witness: scene3 is active under the daylight preset and scene1's
\* camera, left by scene1, and a switch to scene2 changes both.
C21_Witness ==
    /\ currentSceneName = "scene3"
    /\ lights = DaylightPreset
    /\ camera = Scene1Camera
    /\ switchScene(World, "scene2").outcome = "ok"
    /\ switchScene(World, "scene2").w.lights = NightPreset

\* C25: update forwards the tick to the active unit only: every
\* registered unit that is not the active one keeps its animation state
\* and objects list through any number of update calls, and stays
\* initialized and undisposed.
C25_UpdateOnlyActiveUnit ==
    LET r1 == update(World)
        r2 == update(r1.w)
    IN \A n \in SceneNames \ {currentSceneName} :
          /\ r1.w.scenes[n] = scenes[n]
          /\ r2.w.scenes[n] = scenes[n]
          /\ r2.w.currentSceneName = currentSceneName

\* C25 witness: scene1 is active and animated by update, and scene2,
\* initialized and animated while it was active, is not.
C25_Witness ==
    /\ isInitialized
    /\ currentSceneName = "scene1"
    /\ scenes["scene2"].isInitialized
    /\ unitTicks(scenes["scene2"]) > 0
    /\ update(World).outcome = "ok"
    /\ update(World).w.scenes["scene1"] # scenes["scene1"]
    /\ unitUpdate(scenes["scene2"]) # scenes["scene2"]

\* C28: the active scene's unit is always initialized: switchScene never
\* makes active a unit whose isInitialized flag is false.
C28_ActiveUnitInitialized ==
    currentSceneName # NULL => ActiveUnit.isInitialized

\* The units a manager call takes out of the registry, in the state the
\* call leaves them in, over every call that can be made next.
DroppedByNextCall ==
    UNION ( {init(World, f1, f2).w.dropped : f1 \in FailPoints, f2 \in FailPoints}
              \cup {addScene(World, n, ClassFor(n), f).w.dropped :
                        n \in SceneNames, f \in FailPoints}
              \cup {removeScene(World, n).w.dropped : n \in SceneNames}
              \cup {dispose(World).w.dropped} )

\* C29: no unit is leaked: every unit that was in the registry and is no
\* longer in it has been disposed, whether it was replaced by a second
\* init, replaced by addScene, or dropped by removeScene or dispose.
C29_NoUnitLeaked ==
    \A u \in DroppedByNextCall : IsDisposed(u)

\* The lighting preset applyLightingSettings applies for scene1 and for scene2.
PresetOf(sceneName) ==
    IF sceneName = "scene1" THEN DaylightPreset ELSE NightPreset

\* C30: between manager operations the shared lighting values match the
\* active scene: daylight whenever scene1 is active, night whenever
\* scene2 is active.
C30_LightingMatchesActiveScene ==
    currentSceneName \in {"scene1", "scene2"} => lights = PresetOf(currentSceneName)

\* ------------------------------------------------- one unit, positioned
\* The units on their own, with the position loadModel gives each model.
\* The manager's specification above leaves positions out; here the
\* registry only holds the two units that are called directly.

\* The position loadModel gives the new model: an x offset of 3 (Scene1)
\* or 4 (Scene2) per loaded model now in objects.
modelPosition(u) ==
    IF u.cls = "Scene1" THEN <<getModelCount(u) * 3, 0, 3>>
    ELSE <<getModelCount(u) * 4 - 10, 2, -5>>

\* loadModel(modelLoader, modelType), position included: the model that
\* unitLoadModel appends, placed by the count of loaded models before it.
loadModel(u, modelType) ==
    LET r == unitLoadModel(u, modelType)
        last == Len(r.unit.objects)
    IN IF r.threw \/ r.unit = u THEN r
       ELSE [r EXCEPT !.unit.objects[last] =
                [f \in DOMAIN @ \cup {"position"} |->
                    IF f = "position" THEN modelPosition(u) ELSE @[f]]]

\* The names of the two units called directly.
DirectUnits == {"scene1", "scene2"}

\* Two units after their init, not driven by any manager call.
UnitInit ==
    /\ scenes = [n \in SceneNames |->
                    IF n \in DirectUnits THEN FreshInitialized(ClassFor(n)) ELSE NoUnit]
    /\ currentSceneName = NULL
    /\ isInitialized = FALSE
    /\ cameraManager = FALSE
    /\ lightsManager = FALSE
    /\ modelLoader = FALSE
    /\ camera = CameraDefault
    /\ lights = LightsInitial
    /\ suspended = <<>>

UnitLoadModel(n, modelType) ==
    /\ getModelCount(scenes[n]) < MaxModels
    /\ scenes' = [scenes EXCEPT ![n] = loadModel(@, modelType).unit]
    /\ UNCHANGED <<currentSceneName, isInitialized, cameraManager, lightsManager,
                   modelLoader, camera, lights, suspended>>

UnitRemoveModel(n, modelType) ==
    /\ scenes' = [scenes EXCEPT ![n] = unitRemoveModel(@, modelType)]
    /\ UNCHANGED <<currentSceneName, isInitialized, cameraManager, lightsManager,
                   modelLoader, camera, lights, suspended>>

UnitClearModels(n) ==
    /\ scenes' = [scenes EXCEPT ![n] = unitClearModels(@)]
    /\ UNCHANGED <<currentSceneName, isInitialized, cameraManager, lightsManager,
                   modelLoader, camera, lights, suspended>>

UnitNext ==
    \/ \E n \in DirectUnits, modelType \in ModelTypeInputs : UnitLoadModel(n, modelType)
    \/ \E n \in DirectUnits, modelType \in ModelTypeInputs : UnitRemoveModel(n, modelType)
    \/ \E n \in DirectUnits : UnitClearModels(n)

UnitSpec == UnitInit /\ [][UnitNext]_vars

\* The indices in objects of the loaded models of a type.
LoadedOfType(u, t) ==
    {i \in 1..Len(u.objects) : u.objects[i].isLoadedModel /\ u.objects[i].modelType = t}

\* C26: removeModel(t) on a unit holding several loaded models of type t
\* removes exactly one, the one loaded earliest (lowest index in objects);
\* all other loaded models and all decor keep their relative order; with
\* no loaded model of type t the unit is unchanged.
C26_RemoveModelRemovesEarliest ==
    \A n \in DirectUnits, t \in ModelTypeInputs :
        LET u == scenes[n]
            v == unitRemoveModel(u, t)
            hits == LoadedOfType(u, t)
        IN IF hits = {} THEN v = u
           ELSE \E k \in hits :
                  /\ \A j \in hits : k <= j
                  /\ Len(v.objects) = Len(u.objects) - 1
                  /\ \A i \in 1..Len(v.objects) :
                        v.objects[i] = IF i < k THEN u.objects[i] ELSE u.objects[i + 1]
                  /\ v = [u EXCEPT !.objects = v.objects]

\* C26 witness: a unit holds two loaded cubes at different positions and
\* removeModel("cube") leaves the one loaded later.
C26_Witness ==
    \E n \in DirectUnits :
        LET u == scenes[n]
            hits == LoadedOfType(u, "cube")
        IN /\ Cardinality(hits) = 2
           /\ \A i, j \in hits : i # j => u.objects[i].position # u.objects[j].position
           /\ LoadedOfType(unitRemoveModel(u, "cube"), "cube") # {}
           /\ unitRemoveModel(u, "cube").objects[Len(u.objects) - 1] = u.objects[Len(u.objects)]

\* C27: after any sequence of loadModel and removeModel calls on one unit,
\* no two loaded models resident in it at the same time occupy the same
\* position.
C27_NoSharedPosition ==
    \A n \in DirectUnits :
        \A i, j \in 1..Len(scenes[n].objects) :
            (i # j /\ scenes[n].objects[i].isLoadedModel /\ scenes[n].objects[j].isLoadedModel)
                => scenes[n].objects[i].position # scenes[n].objects[j].position

\* --------------------------------------------- calls that are not awaited
\* The manager when its async methods are started without awaiting each
\* other.  An async method runs synchronously up to its await; what follows
\* the await is queued and runs after the calling code has returned, oldest
\* first.  The unit methods behind the awaits (loadModel) and
\* performSceneTransition contain no await of their own, so all their work
\* is done before the manager method suspends.

\* Calls that may wait at their await at the same time.
MaxSuspended == 2

\* A switchScene(sceneName) waiting at `await this.performSceneTransition`.
suspendedSwitch(sceneName) ==
    [op |-> "switchScene", sceneName |-> sceneName, modelType |-> NULL]

\* A loadModelIntoCurrentScene(modelType) waiting at `await ...loadModel`;
\* sceneName is the unit the call resolved before it suspended.
suspendedLoad(sceneName, modelType) ==
    [op |-> "loadModelIntoCurrentScene", sceneName |-> sceneName, modelType |-> modelType]

\* switchScene up to its await: the lookup, the early return and the whole
\* of performSceneTransition.  "ok" means the call now waits.
switchSceneBegin(w, sceneName) ==
    IF ~hasScene(w, sceneName) THEN Ret(w, "NotFoundError")
    ELSE IF w.currentSceneName = sceneName THEN Ret(w, "already")
    ELSE performSceneTransition(w, sceneName)

\* switchScene after its await: this.currentSceneName = sceneName.
switchSceneResume(w, call) ==
    Ret([w EXCEPT !.currentSceneName = call.sceneName], "ok")

\* loadModelIntoCurrentScene up to its await: the unit is looked up under
\* the current name and its loadModel runs to the end.
loadModelBegin(w, modelType) == loadModelIntoCurrentScene(w, modelType)

\* A load that adds its model after the await, to the unit then active.
loadModelResumeLoadsNow(w, call) == loadModelIntoCurrentScene(w, call.modelType)

\* loadModelIntoCurrentScene after its await: a log line.
loadModelResume(w, call) == Ret(w, "ok")

\* The continuation of a waiting call.
resume(w, call) ==
    IF call.op = "switchScene" THEN switchSceneResume(w, call)
    ELSE loadModelResume(w, call)

\* init awaited by its caller, as the application does: nothing else of
\* the manager runs until it has finished.
AwaitedInit(fail1, fail2) ==
    /\ suspended = <<>>
    /\ CommitManager(init(World, fail1, fail2))
    /\ CommitServices(init(World, fail1, fail2))
    /\ UNCHANGED suspended

SwitchSceneBegin(sceneName) ==
    /\ Len(suspended) < MaxSuspended
    /\ CommitManager(switchSceneBegin(World, sceneName))
    /\ CommitServices(switchSceneBegin(World, sceneName))
    /\ suspended' = IF switchSceneBegin(World, sceneName).outcome = "ok"
                    THEN Append(suspended, suspendedSwitch(sceneName))
                    ELSE suspended

LoadModelBegin(modelType) ==
    /\ Len(suspended) < MaxSuspended
    /\ TotalModels < MaxModels
    /\ CommitManager(loadModelBegin(World, modelType))
    /\ CommitServices(loadModelBegin(World, modelType))
    /\ suspended' = IF loadModelBegin(World, modelType).outcome = "ok"
                    THEN Append(suspended, suspendedLoad(currentSceneName, modelType))
                    ELSE suspended

\* The oldest waiting call continues.
Resume ==
    /\ suspended # <<>>
    /\ CommitManager(resume(World, Head(suspended)))
    /\ CommitServices(resume(World, Head(suspended)))
    /\ suspended' = Tail(suspended)

\* removeScene, clearCurrentSceneModels and dispose never wait: started at
\* any point of the calling code they run to the end.
RemoveSceneNow(sceneName) ==
    /\ CommitManager(removeScene(World, sceneName))
    /\ CommitServices(removeScene(World, sceneName))
    /\ UNCHANGED suspended

ClearModelsNow ==
    /\ CommitManager(clearCurrentSceneModels(World))
    /\ CommitServices(clearCurrentSceneModels(World))
    /\ UNCHANGED suspended

DisposeNow ==
    /\ CommitManager(dispose(World))
    /\ CommitServices(dispose(World))
    /\ UNCHANGED suspended

\* The frame callback (animate) is a task of its own: it starts only when
\* the calling code has returned and every continuation has run.
FrameUpdate ==
    /\ suspended = <<>>
    /\ TotalTicks < MaxTicks
    /\ CommitManager(update(World))
    /\ CommitServices(update(World))
    /\ UNCHANGED suspended

AsyncNext ==
    \/ \E fail1 \in FailPoints, fail2 \in FailPoints : AwaitedInit(fail1, fail2)
    \/ \E sceneName \in SceneNames : SwitchSceneBegin(sceneName)
    \/ \E modelType \in ModelTypeInputs : LoadModelBegin(modelType)
    \/ Resume
    \/ \E sceneName \in SceneNames : RemoveSceneNow(sceneName)
    \/ ClearModelsNow
    \/ DisposeNow
    \/ FrameUpdate

AsyncSpec == Init /\ [][AsyncNext]_vars

\* C22: when async operations are started without awaiting each other, a
\* removeScene(n) or dispose() that runs while switchScene(n) waits at its
\* await cannot lead to currentSceneName naming an absent or disposed scene.
C22_ActiveNeverAbsentOrDisposed ==
    currentSceneName # NULL =>
        /\ hasScene(World, currentSceneName)
        /\ ~IsDisposed(scenes[currentSceneName])

\* C24: a load requested through loadModelIntoCurrentScene while unit A is
\* active is added to A's objects and to no other unit, even if switchScene
\* or clearCurrentSceneModels is issued before the load's promise resolves:
\* the call adds the model to the unit under the current name before it
\* waits, changing no other unit, and its continuation changes no unit.
C24_LoadLandsInRequestedUnit ==
    /\ \A modelType \in ModelTypeInputs :
          LET r == loadModelBegin(World, modelType) IN
          /\ r.outcome = "ok" =>
                r.w.scenes[currentSceneName] = unitLoadModel(scenes[currentSceneName], modelType).unit
          /\ \A n \in SceneNames : n # currentSceneName => r.w.scenes[n] = scenes[n]
    /\ \A i \in 1..Len(suspended) :
          suspended[i].op = "loadModelIntoCurrentScene" =>
              resume(World, suspended[i]).w.scenes = scenes

\* C24 witness: the oldest waiting call is a load requested while unit A
\* was active; a switchScene started before it has completed since, so
\* another unit is active now; A holds the model and the active unit holds
\* none, before and after the load continues.
C24_Witness ==
    /\ suspended # <<>>
    /\ Head(suspended).op = "loadModelIntoCurrentScene"
    /\ currentSceneName # NULL
    /\ Head(suspended).sceneName # currentSceneName
    /\ hasScene(World, currentSceneName)
    /\ hasScene(World, Head(suspended).sceneName)
    /\ LoadedOfType(scenes[Head(suspended).sceneName], Head(suspended).modelType) # {}
    /\ getModelCount(resume(World, Head(suspended)).w.scenes[currentSceneName]) = 0

\* The camera settings applyCameraSettings applies for scene1 and for scene2.
CameraOf(sceneName) == IF sceneName = "scene1" THEN Scene1Camera ELSE Scene2Camera

\* C23: no per-frame update runs inside a switchScene in progress, so
\* every update forwarded to a unit runs with that unit's own presets in
\* effect: whenever the frame callback can run and update forwards the
\* tick to scene1 or scene2, the camera and the lights are that scene's.
C23_UpdateRunsUnderOwnPresets ==
    (/\ suspended = <<>>
     /\ update(World).outcome = "ok"
     /\ currentSceneName \in {"scene1", "scene2"})
        => /\ camera = CameraOf(currentSceneName)
           /\ lights = PresetOf(currentSceneName)

====
